---- MODULE Spec2Model ----
(***************************************************************************)
(* The N-gram iterator ngram_iter::Iter<T, I, N> (src/src/iter/mod.rs)     *)
(* with its state (src/src/state.rs).                                      *)
(*                                                                         *)
(* Items of type T are small integers.  A window [T; N] is a sequence of   *)
(* length N: position i of the code (0-based) is index i+1 here.           *)
(***************************************************************************)
EXTENDS Integers, Sequences, FiniteSets, TLC

\* Largest window width N, longest source, number of item values other than
\* the bumper value, and number of calls of next() that are explored.
MaxN == 4
MaxLen == 4
NumItems == 2
MaxCalls == 8

\* Option::None as returned by the source's next().
None == -1
\* A position of `out` that has not been written (MaybeUninit::uninit()).
Uninit == -2
\* T::bumper_item().
BumperItem == 0

\* The values of T: the source may also yield a value equal to the bumper.
Items == 0..NumItems

VARIABLES
    N,        \* the const generic N of Iter<T, I, N>
    src,      \* the answers self.it gives to its first Len(src) calls of next()
    pos,      \* the number of calls of self.it.next() made so far
    state,    \* the variant of self.state: "Start", "Middle" or "End"
    rb,       \* the ring buffer of State::Middle, oldest item first
    ret,      \* what the last call of Iter::next did: "some", "none", "panic"
    windows,  \* the windows returned so far, in order
    calls     \* the number of calls of Iter::next made so far

vars == <<N, src, pos, state, rb, ret, windows, calls>>

SeqsUpTo(S, n) == UNION {[1..k -> S] : k \in 0..n}

\* A source that keeps answering None once it has answered None.
Fused == \A i \in 1..Len(src) : src[i] # None

\* self.it.next() as its (p+1)-th call; after the recorded answers the source
\* is exhausted for good.
ItNext(p) == IF p < Len(src) THEN src[p + 1] ELSE None

\* ConstGenericRingBuffer<T, N>: capacity N, a push on a full buffer
\* overwrites the oldest item.
RbNew == <<>>

\* RbPush adding at the front, where dequeue takes from.
RbPushFront(q, x) == IF Len(q) >= N THEN <<x>> \o SubSeq(q, 1, Len(q) - 1) ELSE <<x>> \o q

\* rb.push(item)
RbPush(q, x) == IF Len(q) >= N THEN Append(Tail(q), x) ELSE Append(q, x)

RbIsEmpty(q) == Len(q) = 0

\* let mut out: [MaybeUninit<T>; N]
NewOut == [i \in 1..N |-> Uninit]

\* out[i] = MaybeUninit::new(v), i counted from 0
Write(o, i, v) == [o EXCEPT ![i + 1] = v]

\* FillBumper with the loop starting one position late (j in i+1..N).
FillBumperSkipFirst(o, i) == [j \in 1..Len(o) |-> IF j - 1 > i THEN BumperItem ELSE o[j]]

\* for j in i..N { out[j] = MaybeUninit::new(T::bumper_item()) }
FillBumper(o, i) == [j \in 1..Len(o) |-> IF j - 1 >= i THEN BumperItem ELSE o[j]]

\* PreconditionViolated with the test N < 1.
PreconditionViolatedBelowOne(n) == n < 1

\* if N < 2 { panic!(...) }
PreconditionViolated(n) == n < 2

\* StartFill without rb.push(item): the item is written to the window only.
RECURSIVE StartFillNoPush(_, _)
StartFillNoPush(i, s) ==
    IF i >= N THEN s
    ELSE LET item == ItNext(s.pos) IN
         StartFillNoPush(i + 1,
             IF item # None
             THEN [rb |-> s.rb, out |-> Write(s.out, i, item), pos |-> s.pos + 1]
             ELSE [rb |-> s.rb, out |-> FillBumper(s.out, i), pos |-> s.pos + 1])

\* The loop `for i in 2..N` of the Start arm, from iteration i on.  s is the
\* record of rb, out and the number of source calls.  The inner bumper loop
\* has no break: the next iteration calls the source again.
RECURSIVE StartFill(_, _)
StartFill(i, s) ==
    IF i >= N THEN s
    ELSE LET item == ItNext(s.pos) IN
         StartFill(i + 1,
             IF item # None
             THEN [rb |-> RbPush(s.rb, item), out |-> Write(s.out, i, item),
                   pos |-> s.pos + 1]
             ELSE [rb |-> s.rb, out |-> FillBumper(s.out, i), pos |-> s.pos + 1])

\* StartArm with the fill loop starting at position 1 (for i in 1..N): the
\* source is asked for one item more than the window has room for.
StartArmFillFromOne(p) ==
    LET first == ItNext(p) IN
    IF first = None
    THEN [state |-> "End", rb |-> RbNew, pos |-> p + 1, win |-> <<>>]
    ELSE LET s == StartFill(1,
                     [rb |-> RbPush(RbNew, first),
                      out |-> Write(Write(NewOut, 0, BumperItem), 1, first),
                      pos |-> p + 1])
         IN [state |-> "Middle", rb |-> s.rb, pos |-> s.pos, win |-> s.out]

\* StartArm returning an all-bumper window when the source is empty.
StartArmWindowOnEmpty(p) ==
    LET first == ItNext(p) IN
    IF first = None
    THEN [state |-> "End", rb |-> RbNew, pos |-> p + 1,
          win |-> FillBumper(NewOut, 0)]
    ELSE LET s == StartFill(2,
                     [rb |-> RbPush(RbNew, first),
                      out |-> Write(Write(NewOut, 0, BumperItem), 1, first),
                      pos |-> p + 1])
         IN [state |-> "Middle", rb |-> s.rb, pos |-> s.pos, win |-> s.out]

\* StartArm padding on the left: the first window is [_, ..., _, s1] and only
\* one item is taken from the source.
StartArmLeadingPad(p) ==
    LET first == ItNext(p) IN
    IF first = None
    THEN [state |-> "End", rb |-> RbNew, pos |-> p + 1, win |-> <<>>]
    ELSE [state |-> "Middle", rb |-> RbPush(RbNew, first), pos |-> p + 1,
          win |-> Write(FillBumper(NewOut, 0), N - 1, first)]

\* The Start arm as a whole, with the source called p times before it: the
\* new state, the buffer, the source calls, and the window returned (<<>>
\* for None).
StartArm(p) ==
    LET first == ItNext(p) IN
    IF first = None
    THEN [state |-> "End", rb |-> RbNew, pos |-> p + 1, win |-> <<>>]
    ELSE LET s == StartFill(2,
                     [rb |-> RbPush(RbNew, first),
                      out |-> Write(Write(NewOut, 0, BumperItem), 1, first),
                      pos |-> p + 1])
         IN [state |-> "Middle", rb |-> s.rb, pos |-> s.pos, win |-> s.out]

\* CopyBuffered walking the buffer newest item first.
CopyBufferedReversed(o, q) ==
    [j \in 1..Len(o) |-> IF j - 1 \in 1..Len(q) THEN q[Len(q) - j + 2] ELSE o[j]]

\* for c in rb.iter() { out[i] = MaybeUninit::new(*c); i += 1; }, i from 1
CopyBuffered(o, q) == [j \in 1..Len(o) |-> IF j - 1 \in 1..Len(q) THEN q[j - 1] ELSE o[j]]

\* MiddleNextState going back to Start when the buffer is empty.
MiddleNextStateRestart(q) == IF RbIsEmpty(q) THEN "Start" ELSE "Middle"

\* MiddleNextState ending the drain while one item is still buffered.
MiddleNextStateEarly(q) == IF Len(q) <= 1 THEN "End" ELSE "Middle"

\* if rb.is_empty() { self.state = State::End; }
MiddleNextState(q) == IF RbIsEmpty(q) THEN "End" ELSE "Middle"

\* MiddleArm without rb.push(item): the pulled item is written to the window
\* only.
MiddleArmNoPush(q, p) ==
    LET rest == Tail(q)
        item == ItNext(p)
        i    == 1 + Len(rest)
        o2   == CopyBuffered(Write(NewOut, 0, Head(q)), rest)
        o3   == IF item # None THEN Write(o2, i, item) ELSE o2
        i2   == IF item # None THEN i + 1 ELSE i
    IN [state |-> MiddleNextState(rest), rb |-> rest, pos |-> p + 1,
        win |-> FillBumper(o3, i2)]

\* MiddleArm without out[i] = item: the pulled item is buffered only.
MiddleArmDropsItem(q, p) ==
    LET rest == Tail(q)
        item == ItNext(p)
        rb2  == IF item # None THEN RbPush(rest, item) ELSE rest
        o2   == CopyBuffered(Write(NewOut, 0, Head(q)), rest)
    IN [state |-> MiddleNextState(rb2), rb |-> rb2, pos |-> p + 1,
        win |-> FillBumper(o2, 1 + Len(rest))]

\* MiddleArm reading the oldest item without removing it when the source
\* gives nothing to push.
MiddleArmKeepsOldest(q, p) ==
    LET rest == Tail(q)
        item == ItNext(p)
        i    == 1 + Len(rest)
        rb2  == IF item # None THEN RbPush(rest, item) ELSE q
        o2   == CopyBuffered(Write(NewOut, 0, Head(q)), rest)
        o3   == IF item # None THEN Write(o2, i, item) ELSE o2
        i2   == IF item # None THEN i + 1 ELSE i
    IN [state |-> MiddleNextState(rb2), rb |-> rb2, pos |-> p + 1,
        win |-> FillBumper(o3, i2)]

\* MiddleArm looking ahead: after an item it calls the source once more and,
\* on None, counts the source as finished.
MiddleArmPeeks(q, p) ==
    LET rest == Tail(q)
        item == ItNext(p)
        i    == 1 + Len(rest)
        rb2  == IF item # None THEN RbPush(rest, item) ELSE rest
        o2   == CopyBuffered(Write(NewOut, 0, Head(q)), rest)
        o3   == IF item # None THEN Write(o2, i, item) ELSE o2
        i2   == IF item # None THEN i + 1 ELSE i
    IN [state |-> MiddleNextState(rb2), rb |-> rb2,
        pos |-> IF item # None /\ ItNext(p + 1) = None THEN p + 2 ELSE p + 1,
        win |-> FillBumper(o3, i2)]

\* The Middle arm on the buffer q, with the source called p times before it.
\* rb.dequeue().unwrap() panics on an empty buffer, and a write at position N
\* is out of bounds: win is then <<>> and state "panic".
MiddleArm(q, p) ==
    IF RbIsEmpty(q) THEN [state |-> "panic", rb |-> q, pos |-> p, win |-> <<>>]
    ELSE
    LET rest == Tail(q)
        item == ItNext(p)
        i    == 1 + Len(rest)
        rb2  == IF item # None THEN RbPush(rest, item) ELSE rest
        o2   == CopyBuffered(Write(NewOut, 0, Head(q)), rest)
        o3   == IF item # None THEN Write(o2, i, item) ELSE o2
        i2   == IF item # None THEN i + 1 ELSE i
    IN IF item # None /\ i >= N
       THEN [state |-> "panic", rb |-> rb2, pos |-> p + 1, win |-> <<>>]
       ELSE [state |-> MiddleNextState(rb2), rb |-> rb2, pos |-> p + 1,
             win |-> FillBumper(o3, i2)]

\* From<I>::from: the source is taken as it is and the state is Start; N is
\* not looked at.
Init ==
    /\ N \in 0..MaxN
    /\ src \in SeqsUpTo(Items \cup {None}, MaxLen)
    /\ pos = 0
    /\ state = "Start"
    /\ rb = RbNew
    /\ ret = "init"
    /\ windows = <<>>
    /\ calls = 0

\* Iter::next with N < 2: the panic of the first statement.
PullPanic ==
    /\ calls < MaxCalls
    /\ PreconditionViolated(N)
    /\ ret' = "panic"
    /\ calls' = calls + 1
    /\ UNCHANGED <<N, src, pos, state, rb, windows>>

\* Iter::next in State::Start.
PullStart ==
    /\ calls < MaxCalls
    /\ ~PreconditionViolated(N)
    /\ state = "Start"
    /\ LET r == StartArm(pos) IN
       /\ state' = r.state
       /\ rb' = r.rb
       /\ pos' = r.pos
       /\ windows' = IF r.win = <<>> THEN windows ELSE Append(windows, r.win)
       /\ ret' = IF r.win = <<>> THEN "none" ELSE "some"
    /\ calls' = calls + 1
    /\ UNCHANGED <<N, src>>

\* Iter::next in State::Middle(rb).
PullMiddle ==
    /\ calls < MaxCalls
    /\ ~PreconditionViolated(N)
    /\ state = "Middle"
    /\ LET r == MiddleArm(rb, pos) IN
       /\ state' = IF r.state = "panic" THEN state ELSE r.state
       /\ rb' = r.rb
       /\ pos' = r.pos
       /\ windows' = IF r.win = <<>> THEN windows ELSE Append(windows, r.win)
       /\ ret' = IF r.state = "panic" THEN "panic" ELSE "some"
    /\ calls' = calls + 1
    /\ UNCHANGED <<N, src>>

\* PullEnd calling the source again and resuming when it answers an item.
PullEndPollsSource ==
    /\ calls < MaxCalls
    /\ ~PreconditionViolated(N)
    /\ state = "End"
    /\ ret' = IF ItNext(pos) = None THEN "none" ELSE "some"
    /\ windows' = IF ItNext(pos) = None THEN windows
                  ELSE Append(windows, Write(FillBumper(NewOut, 0), N - 1, ItNext(pos)))
    /\ pos' = pos + 1
    /\ calls' = calls + 1
    /\ UNCHANGED <<N, src, state, rb>>

\* Iter::next in State::End.
PullEnd ==
    /\ calls < MaxCalls
    /\ ~PreconditionViolated(N)
    /\ state = "End"
    /\ ret' = "none"
    /\ calls' = calls + 1
    /\ UNCHANGED <<N, src, pos, state, rb, windows>>

Next == PullPanic \/ PullStart \/ PullMiddle \/ PullEnd

Spec == Init /\ [][Next]_vars

\* Init with the items drawn from two values only: next() moves and copies
\* items and never looks at one, so the values do not bear on how long the
\* iteration goes on.
LiveInit ==
    /\ N \in 0..MaxN
    /\ src \in SeqsUpTo({None, BumperItem, 1}, MaxLen)
    /\ pos = 0
    /\ state = "Start"
    /\ rb = RbNew
    /\ ret = "init"
    /\ windows = <<>>
    /\ calls = 0

\* The caller keeps pulling (for w in iter { ... }).
LiveSpec == LiveInit /\ [][Next]_vars /\ WF_vars(Next)

(***************************************************************************)
(* Properties.  S is src when Fused holds, L its length, and the k-th      *)
(* emitted window is windows[k].                                           *)
(***************************************************************************)
Min(a, b) == IF a <= b THEN a ELSE b

\* The trailing element (position N-1) of the k-th emitted window.
Trail(k) == windows[k][N]

\* The engine has signalled exhaustion on a finite source, with N >= 2.
Exhausted == ret = "none" /\ Fused /\ N >= 2

\* C1 as stated: once exhaustion is signalled, the number of emitted windows
\* is the number of items of S.
C1_CountEqualsLength == Exhausted => Len(windows) = Len(src)

\* C1 amended: once exhaustion is signalled, the number of emitted windows is
\* |S| + 1 for a non-empty S (the last window leads with the final item and
\* trails with the bumper) and zero for the empty S.
C1_CountIsLengthPlusOne ==
    Exhausted => Len(windows) = IF Len(src) = 0 THEN 0 ELSE Len(src) + 1

C1_Witness == Exhausted /\ N = 2 /\ Len(src) = 2 /\ Len(windows) = 3

\* C2: once a pull has returned None, every later pull returns None, leaves
\* the state End, emits no window and does not call the source.
C2_IdempotentTermination ==
    /\ [](ret = "none" => state = "End")
    /\ [][ret = "none" =>
            /\ ret' = "none"
            /\ state' = "End"
            /\ windows' = windows
            /\ pos' = pos]_vars

C2_Witness ==
    /\ ret = "none"
    /\ state = "End"
    /\ calls >= Len(windows) + 3
    /\ pos < Len(src)
    /\ ItNext(pos) # None

\* C3: with N < 2 every pull panics, whatever the source is, before the
\* source is called and before the state changes; it never returns a window
\* or None.
C3_PreconditionEnforced ==
    /\ [](N < 2 => /\ ret \in {"init", "panic"}
                   /\ calls > 0 => ret = "panic"
                   /\ pos = 0
                   /\ state = "Start"
                   /\ windows = <<>>)
    /\ [][N < 2 => ret' = "panic" /\ pos' = pos /\ state' = state]_vars

C3_Witness == N = 1 /\ ret = "panic" /\ calls >= 2 /\ Len(src) >= 1 /\ src[1] # None

\* C4: on a finite source s1..sL with L >= 1 the first pull emits the window
\* [bumper, s1, ..., s_min(L,N-1), bumper, ...], and when L >= N the second
\* pull emits [s1, ..., sN].
C4_FirstAndSecondWindow ==
    (Fused /\ N >= 2 /\ Len(src) >= 1) =>
        /\ calls >= 1 =>
              /\ Len(windows) >= 1
              /\ windows[1] =
                    [j \in 1..N |-> IF j = 1 THEN BumperItem
                                    ELSE IF j - 1 <= Min(Len(src), N - 1)
                                         THEN src[j - 1]
                                         ELSE BumperItem]
        /\ (calls >= 2 /\ Len(src) >= N) =>
              /\ Len(windows) >= 2
              /\ windows[2] = SubSeq(src, 1, N)

C4_Witness ==
    /\ Fused /\ N = 3 /\ Len(src) = 4 /\ Len(windows) = 2
    /\ src[1] # BumperItem /\ src[2] # src[1]

\* C5 as stated: every item of a finite non-empty S is the trailing element
\* of some window emitted before exhaustion is signalled.
C5_EveryItemTrails ==
    (Exhausted /\ Len(src) >= 1) =>
        \A i \in 1..Len(src) : \E k \in 1..Len(windows) : Trail(k) = src[i]

\* C5 amended: every item s_i of S with i >= N-1 is the trailing element of
\* an emitted window, the (i-N+2)-th (for N = 2 that is every item).
C5_ItemsFromNMinusOneTrail ==
    (Exhausted /\ Len(src) >= 1) =>
        \A i \in (N - 1)..Len(src) :
            /\ i - N + 2 \in 1..Len(windows)
            /\ Trail(i - N + 2) = src[i]

C5_Witness ==
    /\ Exhausted /\ N = 3 /\ Len(src) = 3
    /\ src[3] # BumperItem /\ Trail(2) = src[3]

\* C6 as stated: N = 3 on the source 'ab' (a = 1, b = 2) emits exactly
\* [_,_,a], [_,a,b], [a,b,_] and then signals exhaustion.
C6_TrigramAbLeftPadded ==
    (N = 3 /\ src = <<1, 2>> /\ ret = "none") =>
        windows = << <<BumperItem, BumperItem, 1>>, <<BumperItem, 1, 2>>,
                     <<1, 2, BumperItem>> >>

\* C6 amended: N = 3 on the source 'ab' emits exactly [_,a,b], [a,b,_],
\* [b,_,_], in that order, and then signals exhaustion.
C6_TrigramAb ==
    (N = 3 /\ src = <<1, 2>>) =>
        /\ windows = SubSeq(<< <<BumperItem, 1, 2>>, <<1, 2, BumperItem>>,
                               <<2, BumperItem, BumperItem>> >>,
                            1, Min(calls, 3))
        /\ calls \in 1..3 => ret = "some"
        /\ calls > 3 => ret = "none"

C6_Witness == N = 3 /\ src = <<1, 2>> /\ ret = "none" /\ Len(windows) = 3

\* C7: every emitted window has N positions, each written with an item or
\* the bumper: no position is left uninitialized.
C7_WindowsFullyWritten ==
    \A k \in 1..Len(windows) :
        /\ Len(windows[k]) = N
        /\ \A j \in 1..N : windows[k][j] \in Items

C7_Witness ==
    /\ N = 4 /\ Len(windows) = 2 /\ ItNext(1) = None
    /\ windows[1][3] = BumperItem /\ windows[2][2] = BumperItem

\* C8: a first pull on an exhausted source emits nothing, returns None and
\* goes from Start to End; a first pull on a source with an item emits a
\* window; so zero windows at exhaustion means the source was empty.
C8_EmptySourceOnly ==
    /\ [][(state = "Start" /\ N >= 2) =>
            IF ItNext(pos) = None
            THEN ret' = "none" /\ state' = "End" /\ windows' = windows
            ELSE ret' = "some" /\ Len(windows') = 1 /\ state' # "End"]_vars
    /\ []((ret = "none" /\ windows = <<>>) => (ItNext(0) = None /\ calls >= 1))

C8_Witness ==
    /\ N >= 2 /\ state = "End" /\ ret = "none" /\ windows = <<>>
    /\ calls = 1 /\ pos = 1

\* The emitted windows whose trailing element is not the bumper.
RealTrail == {k \in 1..Len(windows) : Trail(k) # BumperItem}

NoBumperInSrc == \A i \in 1..Len(src) : src[i] # BumperItem

\* C9 as stated: the final item of a finite non-empty S (taken to occur once
\* in S) trails exactly one emitted window, and no later window has a real
\* trailing item.
C9_FinalItemTrailsOnce ==
    (Exhausted /\ Len(src) >= 1 /\ NoBumperInSrc
       /\ \A i \in 1..(Len(src) - 1) : src[i] # src[Len(src)]) =>
        \E k \in 1..Len(windows) :
            /\ Trail(k) = src[Len(src)]
            /\ \A j \in 1..Len(windows) : j # k => Trail(j) # src[Len(src)]
            /\ \A j \in (k + 1)..Len(windows) : Trail(j) = BumperItem

\* C9 amended: when S has at least N-1 items the windows with a real
\* trailing item are the first L-N+2, trailing s_(N-1), ..., s_L in order, so
\* the final item trails exactly one window and nothing real trails after
\* it; when S has fewer than N-1 items no window has a real trailing item.
\* The state is Middle only with a non-empty buffer and End only with an
\* empty one.
C9_FinalItemTrailsOnceIfLongEnough ==
    /\ (Exhausted /\ Len(src) >= 1 /\ NoBumperInSrc) =>
          IF Len(src) >= N - 1
          THEN /\ RealTrail = 1..(Len(src) - N + 2)
               /\ \A k \in RealTrail : Trail(k) = src[k + N - 2]
          ELSE RealTrail = {}
    /\ (N >= 2 /\ state = "Middle") => ~RbIsEmpty(rb)
    /\ (N >= 2 /\ state = "End") => RbIsEmpty(rb)

C9_Witness ==
    /\ Exhausted /\ NoBumperInSrc /\ N = 3 /\ Len(src) = 4
    /\ RealTrail = 1..3 /\ Len(windows) = 5

\* C10 as stated: one call of Iter::next calls the source at most once.
C10_AtMostOneSourceCall == [][pos' - pos <= 1]_vars

\* C10 amended: a pull in Middle calls the source at most once and a pull in
\* End never; a pull in Start calls it at most N-1 times (once for position
\* 1 and once for each of the positions 2..N-1).
C10_SourceCallsPerPull ==
    [][N >= 2 =>
        /\ state = "Middle" => pos' - pos <= 1
        /\ state = "End" => pos' = pos
        /\ state = "Start" => pos' - pos <= N - 1]_vars

C10_Witness == N = 4 /\ calls = 1 /\ pos = 3 /\ state = "Middle" /\ Len(rb) = 3

\* C11 as stated: in a Start pull with N >= 3 whose source answers None for
\* one of the positions 2..N-1, the source is not called again after that
\* None: the call count rises by the items taken plus one, and the window and
\* the buffer hold only the items answered before the None.
C11_StartStopsAtFirstNone ==
    [][(/\ state = "Start" /\ N >= 3 /\ calls' = calls + 1
        /\ ItNext(pos) # None
        /\ \E j \in 1..(N - 2) : ItNext(pos + j) = None) =>
          LET j == CHOOSE j \in 1..(N - 2) :
                       /\ ItNext(pos + j) = None
                       /\ \A m \in 1..(j - 1) : ItNext(pos + m) # None
          IN /\ pos' = pos + j + 1
             /\ rb' = [m \in 1..j |-> ItNext(pos + m - 1)]
             /\ Len(windows') = 1
             /\ windows'[1] =
                   [m \in 1..N |-> IF m = 1 THEN BumperItem
                                   ELSE IF m - 1 <= j THEN ItNext(pos + m - 2)
                                        ELSE BumperItem]]_vars

\* C12: a Middle pull on the buffer b1..bk emits [b1, ..., bk, x, bumper, ...]
\* with x the item the source gives (position k is the bumper too when it
\* gives none), and leaves b2..bk followed by x in the buffer; so on a finite
\* source s1..sL the k-th window, k >= 2, is [s_(k-1), ..., s_(k+N-2)] with
\* the bumper wherever the index exceeds L.
C12_MiddleWindow ==
    /\ [][(state = "Middle" /\ N >= 2 /\ calls' = calls + 1) =>
            LET k == Len(rb)
                x == ItNext(pos)
            IN /\ Len(windows') = Len(windows) + 1
               /\ windows'[Len(windows')] =
                     [m \in 1..N |-> IF m <= k THEN rb[m]
                                     ELSE IF m = k + 1 /\ x # None THEN x
                                          ELSE BumperItem]
               /\ rb' = IF x # None THEN Append(Tail(rb), x) ELSE Tail(rb)]_vars
    /\ []((Fused /\ N >= 2) =>
            \A k \in 2..Len(windows) :
                windows[k] = [m \in 1..N |-> IF k + m - 2 <= Len(src)
                                             THEN src[k + m - 2]
                                             ELSE BumperItem])

C12_Witness ==
    /\ Fused /\ N = 4 /\ Len(src) = 4 /\ Len(windows) = 3
    /\ src[2] # src[3] /\ src[4] # BumperItem
    /\ windows[3] = <<src[2], src[3], src[4], BumperItem>>

\* C13: with N >= 2, over any sequence of pulls the state only moves
\* Start -> Middle, Start -> End, Middle -> Middle, Middle -> End or
\* End -> End: Start is never re-entered and nothing is reachable from End
\* but End.
C13_MonotonicStates ==
    [][N >= 2 =>
        <<state, state'>> \in {<<"Start", "Middle">>, <<"Start", "End">>,
                               <<"Middle", "Middle">>, <<"Middle", "End">>,
                               <<"End", "End">>}]_vars

C13_Witness ==
    /\ state = "End" /\ ret = "none" /\ Len(windows) >= 3
    /\ calls >= Len(windows) + 2 /\ ItNext(pos) # None

\* C14: with N >= 2 the buffer never holds more than N-1 items and holds at
\* least one whenever the state is Middle; no pull panics (the dequeue is
\* never applied to an empty buffer, no write is out of bounds); a Start pull
\* leaves every item it took in the buffer and a Middle pull leaves the old
\* items but the oldest, plus the item it took, so no enqueue overwrote an
\* item or found N-1 items already buffered.
C14_BufferOccupancy ==
    /\ [](N >= 2 => /\ Len(rb) <= N - 1
                    /\ state = "Middle" => Len(rb) >= 1
                    /\ ret # "panic")
    /\ [][(N >= 2 /\ calls' = calls + 1) =>
            /\ state = "Start" =>
                  Len(rb') = Cardinality({j \in pos..(pos' - 1) : ItNext(j) # None})
            /\ state = "Middle" =>
                  /\ Len(rb) - 1 <= N - 2
                  /\ Len(rb') = Len(rb) - 1 + (IF ItNext(pos) # None THEN 1 ELSE 0)]_vars

C14_Witness ==
    /\ N = 4 /\ state = "Middle" /\ Len(rb) = 3 /\ calls = 2
    /\ rb[1] # rb[2] /\ rb[3] # BumperItem

\* C15: on a finite source, with N >= 2, repeated pulling reaches End and
\* gets None, at the latest with pull number |S| + 2; once the source is
\* exhausted each Middle pull takes exactly one item off the buffer and still
\* emits a window.
C15_Termination ==
    /\ (Fused /\ N >= 2) ~> (state = "End" /\ ret = "none")
    /\ []((Fused /\ N >= 2 /\ calls >= Len(src) + 2) => ret = "none")
    /\ [][(/\ state = "Middle" /\ N >= 2 /\ calls' = calls + 1
           /\ Fused /\ pos >= Len(src)) =>
             /\ Len(rb') = Len(rb) - 1
             /\ Len(windows') = Len(windows) + 1
             /\ ret' = "some"]_vars

C15_Witness ==
    /\ Fused /\ N = 4 /\ Len(src) = 3 /\ state = "End" /\ ret = "none"
    /\ calls = 5 /\ Len(windows) = 4

\* C16: a Middle pull moves the state to End exactly when the buffer is empty
\* after it, that is when it dequeued the only buffered item and the source
\* gave none; otherwise the state stays Middle; either way the pull returns a
\* window, and None is first returned by the pull after the one that reached
\* End.
C16_MiddleEndsOnEmptyBuffer ==
    /\ [][(state = "Middle" /\ N >= 2 /\ calls' = calls + 1) =>
            /\ state' \in {"Middle", "End"}
            /\ state' = "End" <=> RbIsEmpty(rb')
            /\ state' = "End" <=> (Len(rb) = 1 /\ ItNext(pos) = None)
            /\ ret' = "some"
            /\ Len(windows') = Len(windows) + 1]_vars
    /\ [][(state = "End" /\ ret = "some" /\ calls' = calls + 1) =>
            ret' = "none" /\ windows' = windows]_vars

C16_Witness ==
    /\ N = 3 /\ state = "End" /\ ret = "some" /\ RbIsEmpty(rb)
    /\ Len(windows) = 3 /\ calls = 3

\* C17: on a finite non-empty source s1..sL, with N >= 2, the leading
\* elements of the emitted windows are the bumper, then s1, s2, ..., sL in
\* source order: the (k+1)-th window leads with s_k, and at exhaustion there
\* are L+1 windows, so every item leads exactly one window.
C17_LeadingElements ==
    (Fused /\ N >= 2 /\ Len(src) >= 1) =>
        /\ Len(windows) <= Len(src) + 1
        /\ \A k \in 1..Len(windows) :
              windows[k][1] = IF k = 1 THEN BumperItem ELSE src[k - 1]
        /\ ret = "none" => Len(windows) = Len(src) + 1

C17_Witness ==
    /\ Exhausted /\ N = 3 /\ Len(src) = 3 /\ Len(windows) = 4
    /\ src[1] # src[2] /\ src[2] # src[3] /\ NoBumperInSrc
    /\ windows[4][1] = src[3]

\* C18: on a source that stays exhausted, with N >= 2, each emitted window is
\* the one before it shifted left by one position: w'[i] = w[i+1] for every
\* i in 0..N-2, with one new trailing element.
C18_SlidingByOne ==
    (Fused /\ N >= 2) =>
        \A k \in 1..(Len(windows) - 1) :
            \A i \in 1..(N - 1) : windows[k + 1][i] = windows[k][i + 1]

C18_Witness ==
    /\ Fused /\ N = 4 /\ Len(src) = 3 /\ Len(windows) = 4 /\ NoBumperInSrc
    /\ src[1] # src[2] /\ src[2] # src[3]
    /\ windows[2] = <<src[1], src[2], src[3], BumperItem>>

====
